---- MODULE Spec2Model ----
(***************************************************************************)
(* Per-example loss computation of tensorflow_privacy's privacy_tests      *)
(* utilities: log_loss, squared_loss, multilabel_bce_loss, the             *)
(* LossFunction enumeration, string_to_loss_function and get_loss.         *)
(*                                                                         *)
(* Arrays live on a heap of objects so that copies, views and in-place     *)
(* writes are distinguishable.  A float is an integer number of 1e-8       *)
(* units (ONE is 1.0, SmallValue is the default small_value 1e-8); the     *)
(* IEEE values inf, -inf and nan are PosInf, NegInf and NaN.               *)
(***************************************************************************)
EXTENDS Integers, Sequences, FiniteSets, TLC

VARIABLES heap, env, call, result, LossFunction

vars == <<heap, env, call, result, LossFunction>>

-----------------------------------------------------------------------------
(* Bounds of the model. *)

\* largest leading dimension (number of examples) of an array
MaxN == 3

\* largest trailing dimension (number of classes) of a 2-D array
MaxC == 2

-----------------------------------------------------------------------------
(* Floats. *)

ONE == 100000000

SmallValue == 1

PosInf == 2147483647

NegInf == -2147483647

NaN == 2147483646

IsFinite(x) == x \notin {PosInf, NegInf, NaN}

\* values of scipy.special.expit on the prediction values of the model
ExpitTable ==
     (-100000000 :> 26894142) @@ (0 :> 50000000) @@ (50000000 :> 62245933) @@
     (100000000 :> 73105858) @@ (200000000 :> 88079708)

\* values of scipy.special.softmax on the prediction rows of the model
SoftmaxTable ==
     (<<-100000000>> :> <<100000000>>) @@
     (<<-100000000, -100000000>> :> <<50000000, 50000000>>) @@
     (<<-100000000, -100000000, -100000000>> :> <<33333333, 33333333, 33333333>>) @@
     (<<-100000000, -100000000, 0>> :> <<21194156, 21194156, 57611688>>) @@
     (<<-100000000, -100000000, 50000000>> :> <<15428077, 15428077, 69143845>>) @@
     (<<-100000000, -100000000, 100000000>> :> <<10650698, 10650698, 78698604>>) @@
     (<<-100000000, -100000000, 200000000>> :> <<4527850, 4527850, 90944300>>) @@
     (<<-100000000, 0>> :> <<26894142, 73105858>>) @@
     (<<-100000000, 0, -100000000>> :> <<21194156, 57611688, 21194156>>) @@
     (<<-100000000, 0, 0>> :> <<15536240, 42231880, 42231880>>) @@
     (<<-100000000, 50000000>> :> <<18242552, 81757448>>) @@
     (<<-100000000, 50000000, -100000000>> :> <<15428077, 69143845, 15428077>>) @@
     (<<-100000000, 50000000, 50000000>> :> <<10036756, 44981622, 44981622>>) @@
     (<<-100000000, 100000000>> :> <<11920292, 88079708>>) @@
     (<<-100000000, 100000000, -100000000>> :> <<10650698, 78698604, 10650698>>) @@
     (<<-100000000, 100000000, 100000000>> :> <<6337894, 46831053, 46831053>>) @@
     (<<-100000000, 200000000>> :> <<4742587, 95257413>>) @@
     (<<-100000000, 200000000, -100000000>> :> <<4527850, 90944300, 4527850>>) @@
     (<<-100000000, 200000000, 200000000>> :> <<2428890, 48785555, 48785555>>) @@
     (<<0>> :> <<100000000>>) @@
     (<<0, -100000000>> :> <<73105858, 26894142>>) @@
     (<<0, -100000000, -100000000>> :> <<57611688, 21194156, 21194156>>) @@
     (<<0, -100000000, 0>> :> <<42231880, 15536240, 42231880>>) @@
     (<<0, 0>> :> <<50000000, 50000000>>) @@
     (<<0, 0, -100000000>> :> <<42231880, 42231880, 15536240>>) @@
     (<<0, 0, 0>> :> <<33333333, 33333333, 33333333>>) @@
     (<<0, 0, 50000000>> :> <<27406862, 27406862, 45186276>>) @@
     (<<0, 0, 100000000>> :> <<21194156, 21194156, 57611688>>) @@
     (<<0, 0, 200000000>> :> <<10650698, 10650698, 78698604>>) @@
     (<<0, 50000000>> :> <<37754067, 62245933>>) @@
     (<<0, 50000000, 0>> :> <<27406862, 45186276, 27406862>>) @@
     (<<0, 50000000, 50000000>> :> <<23269654, 38365173, 38365173>>) @@
     (<<0, 100000000>> :> <<26894142, 73105858>>) @@
     (<<0, 100000000, 0>> :> <<21194156, 57611688, 21194156>>) @@
     (<<0, 100000000, 100000000>> :> <<15536240, 42231880, 42231880>>) @@
     (<<0, 200000000>> :> <<11920292, 88079708>>) @@
     (<<0, 200000000, 0>> :> <<10650698, 78698604, 10650698>>) @@
     (<<0, 200000000, 200000000>> :> <<6337894, 46831053, 46831053>>) @@
     (<<50000000>> :> <<100000000>>) @@
     (<<50000000, -100000000>> :> <<81757448, 18242552>>) @@
     (<<50000000, -100000000, -100000000>> :> <<69143845, 15428077, 15428077>>) @@
     (<<50000000, -100000000, 50000000>> :> <<44981622, 10036756, 44981622>>) @@
     (<<50000000, 0>> :> <<62245933, 37754067>>) @@
     (<<50000000, 0, 0>> :> <<45186276, 27406862, 27406862>>) @@
     (<<50000000, 0, 50000000>> :> <<38365173, 23269654, 38365173>>) @@
     (<<50000000, 50000000>> :> <<50000000, 50000000>>) @@
     (<<50000000, 50000000, -100000000>> :> <<44981622, 44981622, 10036756>>) @@
     (<<50000000, 50000000, 0>> :> <<38365173, 38365173, 23269654>>) @@
     (<<50000000, 50000000, 50000000>> :> <<33333333, 33333333, 33333333>>) @@
     (<<50000000, 50000000, 100000000>> :> <<27406862, 27406862, 45186276>>) @@
     (<<50000000, 50000000, 200000000>> :> <<15428077, 15428077, 69143845>>) @@
     (<<50000000, 100000000>> :> <<37754067, 62245933>>) @@
     (<<50000000, 100000000, 50000000>> :> <<27406862, 45186276, 27406862>>) @@
     (<<50000000, 100000000, 100000000>> :> <<23269654, 38365173, 38365173>>) @@
     (<<50000000, 200000000>> :> <<18242552, 81757448>>) @@
     (<<50000000, 200000000, 50000000>> :> <<15428077, 69143845, 15428077>>) @@
     (<<50000000, 200000000, 200000000>> :> <<10036756, 44981622, 44981622>>) @@
     (<<100000000>> :> <<100000000>>) @@
     (<<100000000, -100000000>> :> <<88079708, 11920292>>) @@
     (<<100000000, -100000000, -100000000>> :> <<78698604, 10650698, 10650698>>) @@
     (<<100000000, -100000000, 100000000>> :> <<46831053, 6337894, 46831053>>) @@
     (<<100000000, 0>> :> <<73105858, 26894142>>) @@
     (<<100000000, 0, 0>> :> <<57611688, 21194156, 21194156>>) @@
     (<<100000000, 0, 100000000>> :> <<42231880, 15536240, 42231880>>) @@
     (<<100000000, 50000000>> :> <<62245933, 37754067>>) @@
     (<<100000000, 50000000, 50000000>> :> <<45186276, 27406862, 27406862>>) @@
     (<<100000000, 50000000, 100000000>> :> <<38365173, 23269654, 38365173>>) @@
     (<<100000000, 100000000>> :> <<50000000, 50000000>>) @@
     (<<100000000, 100000000, -100000000>> :> <<46831053, 46831053, 6337894>>) @@
     (<<100000000, 100000000, 0>> :> <<42231880, 42231880, 15536240>>) @@
     (<<100000000, 100000000, 50000000>> :> <<38365173, 38365173, 23269654>>) @@
     (<<100000000, 100000000, 100000000>> :> <<33333333, 33333333, 33333333>>) @@
     (<<100000000, 100000000, 200000000>> :> <<21194156, 21194156, 57611688>>) @@
     (<<100000000, 200000000>> :> <<26894142, 73105858>>) @@
     (<<100000000, 200000000, 100000000>> :> <<21194156, 57611688, 21194156>>) @@
     (<<100000000, 200000000, 200000000>> :> <<15536240, 42231880, 42231880>>) @@
     (<<200000000>> :> <<100000000>>) @@
     (<<200000000, -100000000>> :> <<95257413, 4742587>>) @@
     (<<200000000, -100000000, -100000000>> :> <<90944300, 4527850, 4527850>>) @@
     (<<200000000, -100000000, 200000000>> :> <<48785555, 2428890, 48785555>>) @@
     (<<200000000, 0>> :> <<88079708, 11920292>>) @@
     (<<200000000, 0, 0>> :> <<78698604, 10650698, 10650698>>) @@
     (<<200000000, 0, 200000000>> :> <<46831053, 6337894, 46831053>>) @@
     (<<200000000, 50000000>> :> <<81757448, 18242552>>) @@
     (<<200000000, 50000000, 50000000>> :> <<69143845, 15428077, 15428077>>) @@
     (<<200000000, 50000000, 200000000>> :> <<44981622, 10036756, 44981622>>) @@
     (<<200000000, 100000000>> :> <<73105858, 26894142>>) @@
     (<<200000000, 100000000, 100000000>> :> <<57611688, 21194156, 21194156>>) @@
     (<<200000000, 100000000, 200000000>> :> <<42231880, 15536240, 42231880>>) @@
     (<<200000000, 200000000>> :> <<50000000, 50000000>>) @@
     (<<200000000, 200000000, -100000000>> :> <<48785555, 48785555, 2428890>>) @@
     (<<200000000, 200000000, 0>> :> <<46831053, 46831053, 6337894>>) @@
     (<<200000000, 200000000, 50000000>> :> <<44981622, 44981622, 10036756>>) @@
     (<<200000000, 200000000, 100000000>> :> <<42231880, 42231880, 15536240>>) @@
     (<<200000000, 200000000, 200000000>> :> <<33333333, 33333333, 33333333>>)

\* values of np.log on the positive arguments the model reaches
LogTable ==
     (1 :> -1842068074) @@ (2428890 :> -371773582) @@ (4527850 :> -309492297) @@
     (4742587 :> -304858742) @@ (6337894 :> -275862365) @@ (10036756 :> -229891623) @@
     (10650698 :> -223954476) @@ (11920292 :> -212692803) @@ (11920293 :> -212692794) @@
     (15428077 :> -186898115) @@ (15536240 :> -186199483) @@ (18242552 :> -170141330) @@
     (21194156 :> -155144470) @@ (23269654 :> -145802008) @@ (26894142 :> -131326169) @@
     (26894143 :> -131326166) @@ (27406862 :> -129437677) @@ (33333333 :> -109861230) @@
     (37754067 :> -97407698) @@ (37754068 :> -97407695) @@ (38365173 :> -95802009) @@
     (42231880 :> -86199480) @@ (44981622 :> -79891618) @@ (45186276 :> -79437677) @@
     (46831053 :> -75862368) @@ (48785555 :> -71773592) @@ (50000000 :> -69314718) @@
     (50000001 :> -69314716) @@ (57611688 :> -55144472) @@ (62245933 :> -47407699) @@
     (62245934 :> -47407697) @@ (69143845 :> -36898114) @@ (73105858 :> -31326169) @@
     (73105859 :> -31326167) @@ (78698604 :> -23954477) @@ (81757448 :> -20141327) @@
     (88079708 :> -12692801) @@ (88079709 :> -12692800) @@ (90944300 :> -9492295) @@
     (95257413 :> -4858735) @@ (100000000 :> 0) @@ (100000001 :> 1) @@
     (200000000 :> 69314718) @@ (200000001 :> 69314719)

special_expit(x) == ExpitTable[x]

special_softmax(row) == SoftmaxTable[row]

np_log(x) ==
  IF x = NaN THEN NaN
  ELSE IF x = PosInf THEN PosInf
  ELSE IF x < 0 THEN NaN
  ELSE IF x = 0 THEN NegInf
  ELSE LogTable[x]

np_maximum(x, y) ==
  IF x = NaN \/ y = NaN THEN NaN ELSE IF x > y THEN x ELSE y

FNeg(x) ==
  IF x = NaN THEN NaN
  ELSE IF x = PosInf THEN NegInf
  ELSE IF x = NegInf THEN PosInf
  ELSE -x

FAdd(x, y) ==
  IF x = NaN \/ y = NaN THEN NaN
  ELSE IF {x, y} = {PosInf, NegInf} THEN NaN
  ELSE IF PosInf \in {x, y} THEN PosInf
  ELSE IF NegInf \in {x, y} THEN NegInf
  ELSE x + y

FSub(x, y) == FAdd(x, FNeg(y))

\* an integer (a label) times a float
FScale(k, x) ==
  IF x = NaN THEN NaN
  ELSE IF x \in {PosInf, NegInf}
       THEN IF k = 0 THEN NaN ELSE IF k > 0 THEN x ELSE FNeg(x)
  ELSE k * x

\* the square of a float that is a multiple of 1e-4
FSquare(x) == (x \div 10000) * (x \div 10000)

FromInt(k) == k * ONE

-----------------------------------------------------------------------------
(* Arrays and the heap.  An array is a shape (one or two dimensions) and   *)
(* its elements in row-major order; a reference is an index of the heap,   *)
(* None is the absent reference.                                           *)

None == 0

Arr(shape, data) == [shape |-> shape, data |-> data]

Dim0(a) == a.shape[1]

Ndim(a) == Len(a.shape)

Size(a) == Len(a.data)

Row(a, i) == SubSeq(a.data, (i - 1) * a.shape[2] + 1, i * a.shape[2])

Map1(a, F(_)) == Arr(a.shape, [k \in 1..Size(a) |-> F(a.data[k])])

Map2(a, b, F(_, _)) == Arr(a.shape, [k \in 1..Size(a) |-> F(a.data[k], b.data[k])])

\* a new array object
Alloc(h, a) == [heap |-> Append(h, a), ref |-> Len(h) + 1]

\* the outcome of a call: an array (ref), None, a raised error or an
\* enumeration member; heap is the heap the call leaves
Out(kind, err, ref, h) ==
  [kind |-> kind, err |-> err, ref |-> ref, heap |-> h,
   logged |-> FALSE, invoked |-> <<>>, member |-> ""]

Truthy(flag) == flag = "True"

RECURSIVE SortedSeq(_)
SortedSeq(S) ==
  IF S = {} THEN <<>>
  ELSE LET lo == CHOOSE x \in S : \A y \in S : x <= y
       IN <<lo>> \o SortedSeq(S \ {lo})

np_unique(h, a) ==
  LET vals == SortedSeq({h[a].data[k] : k \in 1..Size(h[a])})
  IN Alloc(h, Arr(<<Len(vals)>>, vals))

amin(a) == CHOOSE x \in {a.data[k] : k \in 1..Size(a)} :
             \A k \in 1..Size(a) : x <= a.data[k]

amax(a) == CHOOSE x \in {a.data[k] : k \in 1..Size(a)} :
             \A k \in 1..Size(a) : x >= a.data[k]

\* ndarray.flatten: always a copy
flatten(h, a) == Alloc(h, Arr(<<Size(h[a])>>, h[a].data))

np_copy(h, a) == Alloc(h, h[a])

\* target[mask] = values, in place; values holds one element per TRUE of mask
setitem(h, target, mask, values) ==
  LET rank(k) == Cardinality({j \in 1..k : mask[j]})
  IN [h EXCEPT ![target].data =
        [k \in 1..Size(h[target]) |->
           IF mask[k] THEN h[values].data[rank(k)] ELSE h[target].data[k]]]

\* a[mask]: the selected elements, a new array
getitem(h, a, mask) ==
  LET pos == SortedSeq({k \in 1..Size(h[a]) : mask[k]})
  IN Alloc(h, Arr(<<Len(pos)>>, [i \in 1..Len(pos) |-> h[a].data[pos[i]]]))

\* pred[range(labels.size), labels]: row i, column labels[i]; a negative
\* index counts from the end, one out of bounds is an IndexError
IndexInBounds(P, L) ==
  \A i \in 1..Size(L) : i <= Dim0(P) /\ L.data[i] >= -P.shape[2] /\ L.data[i] < P.shape[2]

take(h, pred, labels) ==
  LET P == h[pred]
      L == h[labels]
      col(i) == IF L.data[i] < 0 THEN L.data[i] + P.shape[2] + 1 ELSE L.data[i] + 1
  IN Alloc(h, Arr(<<Size(L)>>, [i \in 1..Size(L) |-> Row(P, i)[col(i)]]))

\* a * b elementwise, a new array (a holds integers, b floats)
np_multiply(h, a, b) == Alloc(h, Map2(h[a], h[b], FScale))

\* a += b, in place
iadd(h, a, b) == [h EXCEPT ![a] = Map2(h[a], h[b], FAdd)]

-----------------------------------------------------------------------------------------------------------------------------------------------------
(* log_loss *)

\* F applied to every element of the array s.ref, a new array
AllocMap(s, F(_)) == Alloc(s.heap, Map1(s.heap[s.ref], F))

\* neg_log_clipped without the clip
neg_log_unclipped(s, small_value) == AllocMap(AllocMap(s, np_log), FNeg)

\* -np.log(np.maximum(x, small_value))
neg_log_clipped(s, small_value) ==
  AllocMap(AllocMap(AllocMap(s, LAMBDA x : np_maximum(x, small_value)), np_log), FNeg)

\* prob_correct = np.copy(pred); prob_correct[labels == 0] = 1 - prob_correct[labels == 0]
prob_correct_binary(h, labels, pred) ==
  LET indices_class0 == [k \in 1..Size(h[labels]) |-> h[labels].data[k] = 0]
      prob_correct == np_copy(h, pred)
      one_minus == AllocMap(getitem(prob_correct.heap, prob_correct.ref, indices_class0),
                            LAMBDA x : FSub(ONE, x))
  IN [heap |-> setitem(one_minus.heap, prob_correct.ref, indices_class0, one_minus.ref),
      ref |-> prob_correct.ref]

log_loss_binary(h, labels, pred, classes, from_logits, small_value) ==
  LET f == flatten(h, pred)
  IN IF amin(f.heap[classes]) < 0 \/ amax(f.heap[classes]) > 1
     THEN Out("raise", "LabelDomain", None, f.heap)
     ELSE
       LET e == IF Truthy(from_logits) THEN AllocMap(f, special_expit) ELSE f
           loss == neg_log_clipped(prob_correct_binary(e.heap, labels, e.ref), small_value)
       IN Out("array", "", loss.ref, loss.heap)

softmax_rows(P) ==
  Arr(P.shape, [k \in 1..Size(P) |->
                  special_softmax(Row(P, ((k - 1) \div P.shape[2]) + 1))
                    [((k - 1) % P.shape[2]) + 1]])

log_loss_categorical(h, labels, pred, classes, from_logits, small_value) ==
  IF amin(h[classes]) < 0 \/ amax(h[classes]) >= h[pred].shape[2]
  THEN Out("raise", "LabelDomain", None, h)
  ELSE
    LET sm == IF Truthy(from_logits)
              THEN Alloc(h, softmax_rows(h[pred]))
              ELSE [heap |-> h, ref |-> pred]
    IN IF ~IndexInBounds(sm.heap[sm.ref], sm.heap[labels])
       THEN Out("raise", "IndexError", None, sm.heap)
       ELSE
         LET loss == neg_log_clipped(take(sm.heap, sm.ref, labels), small_value)
         IN Out("array", "", loss.ref, loss.heap)

\* log_loss taking pred for binary by its number of dimensions
log_loss_by_ndim(h, labels, pred, from_logits, small_value) ==
  IF Dim0(h[labels]) # Dim0(h[pred])
  THEN Out("raise", "ShapeMismatch", None, h)
  ELSE
    LET classes == np_unique(h, labels)
    IN IF Ndim(h[pred]) = 1
       THEN log_loss_binary(classes.heap, labels, pred, classes.ref, from_logits, small_value)
       ELSE log_loss_categorical(classes.heap, labels, pred, classes.ref, from_logits,
                                 small_value)

log_loss(h, labels, pred, from_logits, small_value) ==
  IF Dim0(h[labels]) # Dim0(h[pred])
  THEN Out("raise", "ShapeMismatch", None, h)
  ELSE
    LET classes == np_unique(h, labels)
    IN IF Size(h[pred]) = Dim0(h[pred])
       THEN log_loss_binary(classes.heap, labels, pred, classes.ref, from_logits, small_value)
       ELSE log_loss_categorical(classes.heap, labels, pred, classes.ref, from_logits,
                                 small_value)

-----
(* squared_loss *)

\* numpy broadcasting of two 1-D arrays: equal lengths, or one of length 1
Broadcastable(a, b) == Size(a) = Size(b) \/ Size(a) = 1 \/ Size(b) = 1

BroadcastAt(a, k) == IF Size(a) = 1 THEN a.data[1] ELSE a.data[k]

\* squared_loss with the leading-dimension check of the other two
squared_loss_checked(h, y_true, y_pred) ==
  IF Dim0(h[y_true]) # Dim0(h[y_pred])
  THEN Out("raise", "ShapeMismatch", None, h)
  ELSE
    LET diff == Alloc(h, Arr(h[y_true].shape, [k \in 1..Size(h[y_true]) |->
                  FSub(FromInt(h[y_true].data[k]), h[y_pred].data[k])]))
        sq == Alloc(diff.heap, Map1(diff.heap[diff.ref], FSquare))
    IN Out("array", "", sq.ref, sq.heap)

squared_loss(h, y_true, y_pred) ==
  IF ~Broadcastable(h[y_true], h[y_pred])
  THEN Out("raise", "BroadcastError", None, h)
  ELSE
    LET T == h[y_true]
        P == h[y_pred]
        n == IF Size(T) >= Size(P) THEN Size(T) ELSE Size(P)
        diff == Alloc(h, Arr(<<n>>, [k \in 1..n |->
                  FSub(FromInt(BroadcastAt(T, k)), BroadcastAt(P, k))]))
        sq == Alloc(diff.heap, Map1(diff.heap[diff.ref], FSquare))
    IN Out("array", "", sq.ref, sq.heap)

-----------------------------------------------------------------------------
(* multilabel_bce_loss *)

np_sum_axis1(a) ==
  LET RECURSIVE Sum(_, _)
      Sum(s, k) == IF k = 0 THEN 0 ELSE s[k] + Sum(s, k - 1)
  IN Arr(<<Dim0(a)>>, [i \in 1..Dim0(a) |-> Sum(Row(a, i), a.shape[2])])

IsMultihot(a) == \A k \in 1..Size(a) : a.data[k] = 0 \/ a.data[k] = 1

LooksSingleLabel(s) == \A k \in 1..Size(s) : s.data[k] = 0 \/ s.data[k] = 1

OutOfRange(a) == \E k \in 1..Size(a) : a.data[k] < 0 \/ a.data[k] > ONE

\* log_plus adding small_value in place (x += small_value)
log_plus_inplace(s, small_value) ==
  AllocMap([heap |-> [s.heap EXCEPT ![s.ref] =
                        Map1(s.heap[s.ref], LAMBDA x : FAdd(x, small_value))],
            ref |-> s.ref],
           np_log)

\* np.log(x + small_value)
log_plus(s, small_value) ==
  AllocMap(AllocMap(s, LAMBDA x : FAdd(x, small_value)), np_log)

\* labels * np.log(pred + small_value)
bce_positive(h, labels, p, small_value) ==
  LET lg == log_plus([heap |-> h, ref |-> p], small_value)
  IN np_multiply(lg.heap, labels, lg.ref)

\* (1 - labels) * np.log(1 - pred + small_value)
bce_negative(h, labels, p, small_value) ==
  LET not_labels == Alloc(h, Map1(h[labels], LAMBDA x : 1 - x))
      lg == log_plus(AllocMap([heap |-> not_labels.heap, ref |-> p],
                              LAMBDA x : FSub(ONE, x)), small_value)
  IN np_multiply(lg.heap, not_labels.ref, lg.ref)

multilabel_bce(h, labels, pred, from_logits, small_value) ==
  LET p == IF Truthy(from_logits)
           THEN Alloc(h, Map1(h[pred], special_expit))
           ELSE [heap |-> h, ref |-> pred]
      bce == bce_positive(p.heap, labels, p.ref, small_value)
      rest == bce_negative(bce.heap, labels, p.ref, small_value)
      neg == AllocMap([heap |-> iadd(rest.heap, bce.ref, rest.ref), ref |-> bce.ref], FNeg)
  IN Out("array", "", neg.ref, neg.heap)

\* multilabel_bce_loss checking the range of pred before the labels
multilabel_bce_loss_range_first(h, labels, pred, from_logits, small_value) ==
  IF Dim0(h[labels]) # Dim0(h[pred])
  THEN Out("raise", "ShapeMismatch", None, h)
  ELSE IF ~Truthy(from_logits) /\ OutOfRange(h[pred])
  THEN Out("raise", "Range", None, h)
  ELSE IF ~IsMultihot(h[labels])
  THEN Out("raise", "NotMultihot", None, h)
  ELSE
    LET summed_labels == Alloc(h, np_sum_axis1(h[labels]))
        info == LooksSingleLabel(summed_labels.heap[summed_labels.ref])
    IN [multilabel_bce(summed_labels.heap, labels, pred, from_logits, small_value)
          EXCEPT !.logged = info]

multilabel_bce_loss(h, labels, pred, from_logits, small_value) ==
  IF Dim0(h[labels]) # Dim0(h[pred])
  THEN Out("raise", "ShapeMismatch", None, h)
  ELSE IF ~IsMultihot(h[labels])
  THEN Out("raise", "NotMultihot", None, h)
  ELSE
    LET summed_labels == Alloc(h, np_sum_axis1(h[labels]))
        info == LooksSingleLabel(summed_labels.heap[summed_labels.ref])
        out == IF ~Truthy(from_logits) /\ OutOfRange(h[pred])
               THEN Out("raise", "Range", None, summed_labels.heap)
               ELSE multilabel_bce(summed_labels.heap, labels, pred, from_logits,
                                   small_value)
    IN [out EXCEPT !.logged = info]

-----------------------------------------------------------------------------
(* LossFunction and string_to_loss_function *)

Members == {"CROSS_ENTROPY", "SQUARED"}

\* string_to_loss_function accepting the members' names too
string_to_loss_function_by_name(string) ==
  IF string \in {LossFunction["CROSS_ENTROPY"], "CROSS_ENTROPY"}
  THEN [Out("member", "", None, <<>>) EXCEPT !.member = "CROSS_ENTROPY"]
  ELSE IF string \in {LossFunction["SQUARED"], "SQUARED"}
  THEN [Out("member", "", None, <<>>) EXCEPT !.member = "SQUARED"]
  ELSE Out("raise", "UnrecognizedSelector", None, <<>>)

string_to_loss_function(string) ==
  IF string = LossFunction["CROSS_ENTROPY"]
  THEN [Out("member", "", None, <<>>) EXCEPT !.member = "CROSS_ENTROPY"]
  ELSE IF string = LossFunction["SQUARED"]
  THEN [Out("member", "", None, <<>>) EXCEPT !.member = "SQUARED"]
  ELSE Out("raise", "UnrecognizedSelector", None, <<>>)

-----------------------------------------------------------------------------
(* get_loss *)

\* a loss_function argument: a LossFunction member, a string or a callable
Enum(m) == [tag |-> "enum", v |-> m]

Str(s) == [tag |-> "str", v |-> s]

Callable(f) == [tag |-> "callable", v |-> f]

\* the caller-supplied callable of the model: |labels[0] - pred[0]| per
\* example of pred, a new array
custom_loss(h, labels, pred) ==
  LET d == FSub(FromInt(h[labels].data[1]), h[pred].data[1])
      r == Alloc(h, Arr(<<Dim0(h[pred])>>,
                        [k \in 1..Dim0(h[pred]) |-> IF d < 0 THEN -d ELSE d]))
  IN Out("array", "", r.ref, r.heap)

Invoked(out, names) == [out EXCEPT !.invoked = names \o @]

\* dispatch that ignores multilabel_data
dispatch_single_label(h, labels, predictions, loss_function, using_logits, multilabel_data) ==
  IF loss_function = Enum("CROSS_ENTROPY")
  THEN Invoked(log_loss(h, labels, predictions, using_logits, SmallValue), <<"log_loss">>)
  ELSE IF loss_function = Enum("SQUARED")
  THEN Invoked(squared_loss(h, labels, predictions), <<"squared_loss">>)
  ELSE Invoked(custom_loss(h, labels, predictions), <<loss_function.v>>)

dispatch(h, labels, predictions, loss_function, using_logits, multilabel_data) ==
  IF loss_function = Enum("CROSS_ENTROPY")
  THEN IF Truthy(multilabel_data)
       THEN Invoked(multilabel_bce_loss(h, labels, predictions, using_logits, SmallValue),
                    <<"multilabel_bce_loss">>)
       ELSE Invoked(log_loss(h, labels, predictions, using_logits, SmallValue),
                    <<"log_loss">>)
  ELSE IF loss_function = Enum("SQUARED")
  THEN Invoked(squared_loss(h, labels, predictions), <<"squared_loss">>)
  ELSE Invoked(custom_loss(h, labels, predictions), <<loss_function.v>>)

\* get_loss from the choice of predictions on
compute_loss(h, labels, logits, probs, loss_function, using_logits, multilabel_data) ==
  LET predictions == IF Truthy(using_logits) THEN logits ELSE probs
      resolved == IF loss_function.tag = "str"
                  THEN string_to_loss_function(loss_function.v)
                  ELSE Out("member", "", None, <<>>)
      names == IF loss_function.tag = "str" THEN <<"string_to_loss_function">> ELSE <<>>
  IN IF resolved.kind = "raise"
     THEN Invoked([resolved EXCEPT !.heap = h], names)
     ELSE Invoked(dispatch(h, labels, predictions,
                           IF loss_function.tag = "str"
                           THEN Enum(resolved.member) ELSE loss_function,
                           using_logits, multilabel_data),
                  names)

\* get_loss looking at labels, logits and probs before loss
get_loss_availability_first(h, loss, labels, logits, probs, loss_function, using_logits, multilabel_data) ==
  IF labels = None \/ (logits = None /\ probs = None)
  THEN Out("None", "", None, h)
  ELSE IF loss # None
  THEN Out("array", "", loss, h)
  ELSE IF Truthy(using_logits) /\ logits = None
  THEN Out("raise", "MissingLogits", None, h)
  ELSE IF ~Truthy(using_logits) /\ probs = None
  THEN Out("raise", "MissingProbs", None, h)
  ELSE
    compute_loss(h, labels, logits, probs, loss_function, using_logits, multilabel_data)

\* get_loss looking for the missing prediction kind before availability
get_loss_missing_first(h, loss, labels, logits, probs, loss_function, using_logits, multilabel_data) ==
  IF loss # None
  THEN Out("array", "", loss, h)
  ELSE IF Truthy(using_logits) /\ logits = None
  THEN Out("raise", "MissingLogits", None, h)
  ELSE IF ~Truthy(using_logits) /\ probs = None
  THEN Out("raise", "MissingProbs", None, h)
  ELSE IF labels = None
  THEN Out("None", "", None, h)
  ELSE
    compute_loss(h, labels, logits, probs, loss_function, using_logits, multilabel_data)

\* get_loss resolving a string selector before looking for the missing kind
get_loss_resolve_first(h, loss, labels, logits, probs, loss_function, using_logits, multilabel_data) ==
  IF loss # None
  THEN Out("array", "", loss, h)
  ELSE IF labels = None \/ (logits = None /\ probs = None)
  THEN Out("None", "", None, h)
  ELSE IF loss_function.tag = "str"
          /\ string_to_loss_function(loss_function.v).kind = "raise"
  THEN Invoked(Out("raise", "UnrecognizedSelector", None, h),
               <<"string_to_loss_function">>)
  ELSE IF Truthy(using_logits) /\ logits = None
  THEN Out("raise", "MissingLogits", None, h)
  ELSE IF ~Truthy(using_logits) /\ probs = None
  THEN Out("raise", "MissingProbs", None, h)
  ELSE
    compute_loss(h, labels, logits, probs, loss_function, using_logits, multilabel_data)

get_loss(h, loss, labels, logits, probs, loss_function, using_logits, multilabel_data) ==
  IF loss # None
  THEN Out("array", "", loss, h)
  ELSE IF labels = None \/ (logits = None /\ probs = None)
  THEN Out("None", "", None, h)
  ELSE IF Truthy(using_logits) /\ logits = None
  THEN Out("raise", "MissingLogits", None, h)
  ELSE IF ~Truthy(using_logits) /\ probs = None
  THEN Out("raise", "MissingProbs", None, h)
  ELSE
    compute_loss(h, labels, logits, probs, loss_function, using_logits, multilabel_data)

-----------------------------------------------------------------------------
(* The arguments the model draws. *)

\* labels: class ids, with one below and one above the binary range
LabelVals == {-1, 0, 1, 2}

\* predictions: as probabilities, one below range, 0, 0.5, 1, one above
PredVals == {-ONE, 0, ONE \div 2, ONE, 2 * ONE}

Flags == {"True", "False"}

OptFlags == {"True", "False", "None"}

Strings == {"cross_entropy", "squared", "CROSS_ENTROPY", "SQUARED",
            "Cross_Entropy", " squared", "squared ", "mse", ""}

Selectors == {Enum(m) : m \in Members}
             \cup {Str(s) : s \in {"cross_entropy", "squared", "SQUARED", "mse"}}
             \cup {Callable("custom_loss")}

Shapes1 == {<<n>> : n \in 1..MaxN}

Shapes2 == {<<n, c>> : n \in 1..MaxN, c \in 1..MaxC}

NumElems(shape) == IF Len(shape) = 1 THEN shape[1] ELSE shape[1] * shape[2]

Full(shape, v) == Arr(shape, [k \in 1..NumElems(shape) |-> v])

\* the arrays of a shape that hold one value everywhere but at one place
OneOff(shape, Vals) ==
  {Arr(shape, [k \in 1..NumElems(shape) |-> IF k = pos THEN v ELSE b]) :
     b \in Vals, v \in Vals, pos \in 1..NumElems(shape)}

\* the shapes a loss function documents for (labels, pred)
DocLogLoss(L, P) == Ndim(L) = 1

DocSquaredLoss(L, P) == Ndim(L) = 1 /\ Ndim(P) = 1

DocMultilabel(L, P) == Ndim(L) = 2 /\ Ndim(P) = 2 /\ L.shape[2] = P.shape[2]

-----------------------------------------------------------------------------
(* The state machine: a caller that owns arrays and calls the functions. *)

NoCall ==
  [op |-> "none", loss |-> None, labels |-> None, logits |-> None, probs |-> None,
   pred |-> None, loss_function |-> Str(""), from_logits |-> "None",
   multilabel_data |-> "None", string |-> ""]

NoResult ==
  [kind |-> "none", err |-> "", ref |-> None, val |-> Arr(<<>>, <<>>),
   logged |-> FALSE, invoked |-> <<>>, member |-> "", allocs |-> 0]

\* what the caller sees of a call's outcome: ref is the caller's own object
\* when the returned array is one, None when it is a new array
Seen(out, h0) ==
  [kind |-> out.kind, err |-> out.err,
   ref |-> IF out.kind = "array" /\ out.ref <= Len(h0) THEN out.ref ELSE None,
   val |-> IF out.kind = "array" THEN out.heap[out.ref] ELSE Arr(<<>>, <<>>),
   logged |-> out.logged, invoked |-> out.invoked, member |-> out.member,
   allocs |-> Len(out.heap) - Len(h0)]

Return(c, out) ==
  /\ call' = c
  /\ result' = Seen(out, heap)
  /\ heap' = SubSeq(out.heap, 1, Len(heap))
  /\ UNCHANGED <<env, LossFunction>>

InitCommon ==
  /\ call = NoCall
  /\ result = NoResult
  /\ LossFunction = [m \in Members |->
                       IF m = "CROSS_ENTROPY" THEN "cross_entropy" ELSE "squared"]

\* a label array and a prediction array
InitLoss ==
  /\ InitCommon
  /\ env = [loss |-> None, labels |-> 1, logits |-> None, probs |-> 2]
  /\ \E ls \in Shapes1 \cup Shapes2, ps \in Shapes1 \cup Shapes2 :
       /\ Len(ls) = 2 => (Len(ps) = 2 /\ ls[2] = ps[2])
       /\ \E L \in OneOff(ls, LabelVals), P \in OneOff(ps, PredVals) :
            heap = <<L, P>>

\* any of loss, labels, logits and probs, each present or None: one loss per
\* label row, logits and probs of one shape
InitAll ==
  /\ InitCommon
  /\ \E has \in [{"loss", "labels", "logits", "probs"} -> BOOLEAN],
        ls \in Shapes1 \cup Shapes2, ps \in Shapes1 \cup Shapes2, lv \in {0, 1, 2} :
       /\ Len(ls) = 2 => (Len(ps) = 2 /\ ls[2] = ps[2])
       /\ LET objs == <<[name |-> "loss", a |-> Full(<<ls[1]>>, ONE \div 2)],
                        [name |-> "labels", a |-> Full(ls, lv)],
                        [name |-> "logits", a |-> Full(ps, 2 * ONE)],
                        [name |-> "probs", a |-> Full(ps, ONE \div 2)]>>
              kept == SelectSeq(objs, LAMBDA o : has[o.name])
              at(name) == IF has[name]
                          THEN CHOOSE i \in 1..Len(kept) : kept[i].name = name
                          ELSE None
          IN /\ heap = [i \in 1..Len(kept) |-> kept[i].a]
             /\ env = [loss |-> at("loss"), labels |-> at("labels"),
                       logits |-> at("logits"), probs |-> at("probs")]

CallLogLoss ==
  \E pred \in {env.logits, env.probs} \ {None}, from_logits \in Flags :
    /\ env.labels # None
    /\ DocLogLoss(heap[env.labels], heap[pred])
    /\ Return([NoCall EXCEPT !.op = "log_loss", !.labels = env.labels, !.pred = pred,
                             !.from_logits = from_logits],
              log_loss(heap, env.labels, pred, from_logits, SmallValue))

CallSquaredLoss ==
  \E pred \in {env.logits, env.probs} \ {None} :
    /\ env.labels # None
    /\ DocSquaredLoss(heap[env.labels], heap[pred])
    /\ Return([NoCall EXCEPT !.op = "squared_loss", !.labels = env.labels, !.pred = pred],
              squared_loss(heap, env.labels, pred))

CallMultilabelBceLoss ==
  \E pred \in {env.logits, env.probs} \ {None}, from_logits \in Flags :
    /\ env.labels # None
    /\ DocMultilabel(heap[env.labels], heap[pred])
    /\ Return([NoCall EXCEPT !.op = "multilabel_bce_loss", !.labels = env.labels,
                             !.pred = pred, !.from_logits = from_logits],
              multilabel_bce_loss(heap, env.labels, pred, from_logits, SmallValue))

CallStringToLossFunction ==
  \E string \in Strings :
    Return([NoCall EXCEPT !.op = "string_to_loss_function", !.string = string],
           [string_to_loss_function(string) EXCEPT !.heap = heap])

\* the loss function get_loss reaches, "" when it reaches none of this module
Reaches(loss_function, using_logits, multilabel_data) ==
  IF env.loss # None \/ env.labels = None \/ (env.logits = None /\ env.probs = None)
     \/ (Truthy(using_logits) /\ env.logits = None)
     \/ (~Truthy(using_logits) /\ env.probs = None)
  THEN ""
  ELSE IF loss_function \in {Enum("CROSS_ENTROPY"), Str("cross_entropy")}
  THEN IF Truthy(multilabel_data) THEN "multilabel_bce_loss" ELSE "log_loss"
  ELSE IF loss_function \in {Enum("SQUARED"), Str("squared")}
  THEN "squared_loss"
  ELSE ""

CallGetLoss ==
  \E loss_function \in Selectors, using_logits \in OptFlags, multilabel_data \in OptFlags :
    /\ LET fn == Reaches(loss_function, using_logits, multilabel_data)
           L == heap[env.labels]
           P == heap[IF Truthy(using_logits) THEN env.logits ELSE env.probs]
       IN \/ fn = ""
          \/ fn = "log_loss" /\ DocLogLoss(L, P)
          \/ fn = "squared_loss" /\ DocSquaredLoss(L, P)
          \/ fn = "multilabel_bce_loss" /\ DocMultilabel(L, P)
    /\ Return([NoCall EXCEPT !.op = "get_loss", !.loss = env.loss, !.labels = env.labels,
                             !.logits = env.logits, !.probs = env.probs,
                             !.loss_function = loss_function,
                             !.from_logits = using_logits,
                             !.multilabel_data = multilabel_data],
              get_loss(heap, env.loss, env.labels, env.logits, env.probs,
                       loss_function, using_logits, multilabel_data))

NextLoss == CallLogLoss \/ CallSquaredLoss \/ CallMultilabelBceLoss

Next ==
  \/ CallGetLoss
  \/ CallStringToLossFunction
  \/ CallLogLoss
  \/ CallSquaredLoss
  \/ CallMultilabelBceLoss

\* the three loss functions on a label array and a prediction array
SpecLoss == InitLoss /\ [][NextLoss]_vars

\* every function of the module, on a caller's optional arrays
Spec == InitAll /\ [][Next]_vars

-----------------------------------------------------------------------------
(* Views of the last call. *)

CallLabels == heap[call.labels]

CallPred == heap[call.pred]

IsGetLoss == call.op = "get_loss"

\* get_loss got no loss, labels and the prediction kind the flag asks for
ComputePath ==
  /\ IsGetLoss
  /\ call.loss = None
  /\ call.labels # None
  /\ IF Truthy(call.from_logits) THEN call.logits # None ELSE call.probs # None

Predictions == IF Truthy(call.from_logits) THEN call.logits ELSE call.probs

\* the loss functions among the functions a call invoked
LossCalls(invoked) == SelectSeq(invoked, LAMBDA f : f # "string_to_loss_function")

SameOutcome(r, out) ==
  /\ r.kind = out.kind
  /\ r.err = out.err
  /\ r.val = Seen(out, heap).val
  /\ r.logged = out.logged

-----------------------------------------------------------------------------
(* C1 *)

\* C1: get_loss given a loss that is not None returns that very array, with
\* its contents, whatever the other arguments are: nothing is invoked,
\* nothing is computed, nothing is raised.
C1_PrecomputedLossReturned ==
  (IsGetLoss /\ call.loss # None) =>
    /\ result.kind = "array"
    /\ result.ref = call.loss
    /\ result.val = heap[call.loss]
    /\ result.invoked = <<>>
    /\ result.allocs = 0

C1_Witness ==
  /\ IsGetLoss
  /\ call.loss # None
  /\ call.labels # None
  /\ call.logits # None
  /\ call.probs = None
  /\ Dim0(heap[call.labels]) # Dim0(heap[call.logits])
  /\ call.loss_function = Str("mse")
  /\ ~Truthy(call.from_logits)
  /\ result.kind = "array"
  /\ result.ref = call.loss

-----------------------------------------------------------------------------
(* C2 *)

\* C2: get_loss given no loss and either no labels or neither logits nor
\* probs returns None and raises nothing, whatever the selector and the
\* flags are; no function is invoked, the selector is not resolved.
C2_UnavailableGivesNone ==
  (IsGetLoss /\ call.loss = None
     /\ (call.labels = None \/ (call.logits = None /\ call.probs = None))) =>
    /\ result.kind = "None"
    /\ result.invoked = <<>>
    /\ result.allocs = 0

C2_Witness ==
  /\ IsGetLoss
  /\ call.loss = None
  /\ call.labels = None
  /\ call.logits = None
  /\ call.probs # None
  /\ Truthy(call.from_logits)
  /\ call.loss_function = Str("mse")
  /\ result.kind = "None"

-----------------------------------------------------------------------------
(* C3 *)

\* C3: get_loss given no loss, labels and at least one of logits and probs
\* raises the missing-input error exactly when the prediction kind the flag
\* asks for is None, for every selector; it then invokes no function and
\* does not resolve the selector.
C3_MissingInput ==
  (IsGetLoss /\ call.loss = None /\ call.labels # None
     /\ (call.logits # None \/ call.probs # None)) =>
    LET needs_logits == Truthy(call.from_logits)
        missing == IF needs_logits THEN call.logits = None ELSE call.probs = None
    IN /\ (result.kind = "raise" /\ result.err \in {"MissingLogits", "MissingProbs"})
            <=> missing
       /\ missing =>
            /\ result.err = IF needs_logits THEN "MissingLogits" ELSE "MissingProbs"
            /\ result.invoked = <<>>
            /\ result.allocs = 0

C3_Witness ==
  /\ IsGetLoss
  /\ call.loss = None
  /\ call.labels # None
  /\ call.logits # None
  /\ call.probs = None
  /\ call.from_logits = "None"
  /\ call.loss_function = Str("mse")
  /\ result.kind = "raise"
  /\ result.err = "MissingProbs"

-----------------------------------------------------------------------------
(* C4 *)

Canonical == {"cross_entropy", "squared"}

\* the member a selector names, "" when it names none
Names(loss_function) ==
  IF loss_function \in {Enum("CROSS_ENTROPY"), Str("cross_entropy")} THEN "CROSS_ENTROPY"
  ELSE IF loss_function \in {Enum("SQUARED"), Str("squared")} THEN "SQUARED"
  ELSE ""

\* the one loss function call the dispatch rule prescribes
Prescribed ==
  IF Names(call.loss_function) = "CROSS_ENTROPY" /\ Truthy(call.multilabel_data)
  THEN [name |-> "multilabel_bce_loss",
        out |-> multilabel_bce_loss(heap, call.labels, Predictions, call.from_logits,
                                    SmallValue)]
  ELSE IF Names(call.loss_function) = "CROSS_ENTROPY"
  THEN [name |-> "log_loss",
        out |-> log_loss(heap, call.labels, Predictions, call.from_logits, SmallValue)]
  ELSE IF Names(call.loss_function) = "SQUARED"
  THEN [name |-> "squared_loss", out |-> squared_loss(heap, call.labels, Predictions)]
  ELSE [name |-> call.loss_function.v,
        out |-> custom_loss(heap, call.labels, Predictions)]

FollowsPrescribed ==
  /\ LossCalls(result.invoked) = <<Prescribed.name>>
  /\ SameOutcome(result, Prescribed.out)

\* C4 as stated: on the compute path the result is always that of exactly
\* one loss function applied to (labels, predictions): the member's function
\* for a member or its canonical string, a direct call for every other value.
C4_AlwaysOneLossFunction == ComputePath => FollowsPrescribed

\* C4 as amended: the same, except for a string that is no canonical name:
\* get_loss then raises the unrecognized-selector error of
\* string_to_loss_function and invokes no loss function.
C4_Dispatch ==
  ComputePath =>
    IF call.loss_function.tag = "str" /\ call.loss_function.v \notin Canonical
    THEN /\ result.kind = "raise"
         /\ result.err = "UnrecognizedSelector"
         /\ result.invoked = <<"string_to_loss_function">>
         /\ result.allocs = 0
    ELSE FollowsPrescribed

C4_Witness ==
  /\ ComputePath
  /\ call.loss_function = Str("cross_entropy")
  /\ Truthy(call.multilabel_data)
  /\ Truthy(call.from_logits)
  /\ call.probs # None
  /\ result.kind = "array"
  /\ result.invoked = <<"string_to_loss_function", "multilabel_bce_loss">>

-----------------------------------------------------------------------------
(* C5 *)

IsLossCall == call.op \in {"log_loss", "squared_loss", "multilabel_bce_loss"}

\* C5 as stated: when labels and pred differ in their leading dimension each
\* of the three loss functions raises, before computing anything.
C5_MismatchAlwaysFails ==
  (IsLossCall /\ Dim0(CallLabels) # Dim0(CallPred)) =>
    /\ result.kind = "raise"
    /\ result.allocs = 0

\* C5 as amended: when labels and pred differ in their leading dimension,
\* log_loss and multilabel_bce_loss raise the shape-mismatch error before
\* computing anything; squared_loss, on the 1-D arrays it documents, raises
\* (numpy's broadcasting error, before computing anything) only when neither
\* length is 1, and otherwise returns a loss array of the longer length.
C5_MismatchFailsUnlessBroadcast ==
  (IsLossCall /\ Dim0(CallLabels) # Dim0(CallPred)) =>
    IF call.op = "squared_loss" /\ (Dim0(CallLabels) = 1 \/ Dim0(CallPred) = 1)
    THEN /\ result.kind = "array"
         /\ result.val.shape = <<IF Dim0(CallLabels) = 1 THEN Dim0(CallPred)
                                 ELSE Dim0(CallLabels)>>
    ELSE /\ result.kind = "raise"
         /\ result.err = IF call.op = "squared_loss" THEN "BroadcastError"
                         ELSE "ShapeMismatch"
         /\ result.allocs = 0

C5_Witness ==
  /\ call.op = "squared_loss"
  /\ Dim0(CallLabels) = 1
  /\ Dim0(CallPred) = 2
  /\ result.kind = "array"
  /\ result.val.shape = <<2>>

-----------------------------------------------------------------------------
(* C6 *)

\* C6: string_to_loss_function returns CROSS_ENTROPY for 'cross_entropy' and
\* SQUARED for 'squared', the member whose value the string is, and raises
\* the unrecognized-value error for every other string: another case, added
\* whitespace, a member's name.
C6_RoundTrip ==
  call.op = "string_to_loss_function" =>
    IF call.string = "cross_entropy"
    THEN result.kind = "member" /\ result.member = "CROSS_ENTROPY"
    ELSE IF call.string = "squared"
    THEN result.kind = "member" /\ result.member = "SQUARED"
    ELSE result.kind = "raise" /\ result.err = "UnrecognizedSelector"

C6_Witness ==
  /\ call.op = "string_to_loss_function"
  /\ call.string = "CROSS_ENTROPY"
  /\ result.kind = "raise"
  /\ result.err = "UnrecognizedSelector"

-----------------------------------------------------------------------------
(* C7 *)

SomeLabelNotBinary == \E k \in 1..Size(CallLabels) : CallLabels.data[k] \notin {0, 1}

SomePredOutsideUnit ==
  \E k \in 1..Size(CallPred) : CallPred.data[k] < 0 \/ CallPred.data[k] > ONE

EveryRowSumsToAtMostOne ==
  \A i \in 1..Dim0(CallLabels) :
    Cardinality({j \in 1..CallLabels.shape[2] : Row(CallLabels, i)[j] = 1}) <= 1

\* C7: multilabel_bce_loss raises the shape-mismatch error when the leading
\* dimensions differ, whatever the contents; otherwise the label-domain error
\* when a label is neither 0 nor 1, whatever the predictions; otherwise, with
\* from_logits false only, the range error when a prediction is outside
\* [0, 1]; otherwise it returns an N x C array.  The advisory is logged when
\* the first two checks pass and every row sums to 0 or 1, and decides nothing.
C7_ValidationOrder ==
  call.op = "multilabel_bce_loss" =>
    IF Dim0(CallLabels) # Dim0(CallPred)
    THEN result.kind = "raise" /\ result.err = "ShapeMismatch" /\ ~result.logged
    ELSE IF SomeLabelNotBinary
    THEN result.kind = "raise" /\ result.err = "NotMultihot" /\ ~result.logged
    ELSE /\ result.logged = EveryRowSumsToAtMostOne
         /\ IF ~Truthy(call.from_logits) /\ SomePredOutsideUnit
            THEN result.kind = "raise" /\ result.err = "Range"
            ELSE /\ result.kind = "array"
                 /\ result.val.shape = CallLabels.shape
                 /\ Size(result.val) = Dim0(CallLabels) * CallLabels.shape[2]

C7_Witness ==
  /\ call.op = "multilabel_bce_loss"
  /\ Dim0(CallLabels) # Dim0(CallPred)
  /\ SomeLabelNotBinary
  /\ SomePredOutsideUnit
  /\ ~Truthy(call.from_logits)
  /\ result.kind = "raise"
  /\ result.err = "ShapeMismatch"

-----------------------------------------------------------------------------
(* C8 *)

OneScalarPerExample == Size(CallPred) = Dim0(CallPred)

\* the probability the prediction gives example i's true class
TrueClassProb(i) ==
  IF OneScalarPerExample
  THEN LET p == IF Truthy(call.from_logits) THEN special_expit(CallPred.data[i])
                ELSE CallPred.data[i]
       IN IF CallLabels.data[i] = 1 THEN p ELSE FSub(ONE, p)
  ELSE LET row == IF Truthy(call.from_logits) THEN special_softmax(Row(CallPred, i))
                  ELSE Row(CallPred, i)
       IN row[CallLabels.data[i] + 1]

\* C8: once the leading dimensions agree, log_loss is binary exactly when
\* pred holds one scalar per example (1-D, or N x 1) and categorical
\* otherwise.  Binary, it raises the label-domain error exactly when a label
\* is outside {0, 1}; categorical, exactly when a label is outside [0, C-1].
\* Otherwise it returns N values, each -log of the true-class probability
\* clipped below by small_value.
C8_BinaryOrCategorical ==
  (call.op = "log_loss" /\ Dim0(CallLabels) = Dim0(CallPred)) =>
    LET classes == IF OneScalarPerExample THEN {0, 1} ELSE 0..(CallPred.shape[2] - 1)
        bad == \E k \in 1..Size(CallLabels) : CallLabels.data[k] \notin classes
    IN IF bad
       THEN result.kind = "raise" /\ result.err = "LabelDomain"
       ELSE /\ result.kind = "array"
            /\ result.val.shape = <<Dim0(CallLabels)>>
            /\ \A i \in 1..Dim0(CallLabels) :
                 result.val.data[i] =
                   FNeg(np_log(np_maximum(TrueClassProb(i), SmallValue)))

C8_Witness ==
  /\ call.op = "log_loss"
  /\ CallPred.shape = <<2, 1>>
  /\ CallLabels.data = <<1, 0>>
  /\ CallPred.data = <<ONE, ONE \div 2>>
  /\ ~Truthy(call.from_logits)
  /\ result.kind = "array"
  /\ result.val.data = <<0, 69314718>>

-----------------------------------------------------------------------------
(* C9 *)

\* C9: no call changes an array of the caller (loss, labels, logits, probs)
\* or the module's state (the LossFunction enumeration): every step leaves
\* them as they were.
C9_InputsUntouched == [][heap' = heap /\ LossFunction' = LossFunction]_vars

C9_Witness ==
  /\ call.op = "log_loss"
  /\ OneScalarPerExample
  /\ ~Truthy(call.from_logits)
  /\ \E k \in 1..Size(CallLabels) : CallLabels.data[k] = 0
  /\ result.kind = "array"
  /\ result.ref = None
  /\ result.val # CallPred

-----------------------------------------------------------------------------
(* C10 *)

ValidBinaryInput ==
  /\ call.op = "log_loss"
  /\ Dim0(CallLabels) = Dim0(CallPred)
  /\ OneScalarPerExample
  /\ \A k \in 1..Size(CallLabels) : CallLabels.data[k] \in {0, 1}
  /\ Truthy(call.from_logits)
       \/ \A k \in 1..Size(CallPred) : CallPred.data[k] >= 0 /\ CallPred.data[k] <= ONE

\* C10: on valid binary input (labels in {0, 1}; one prediction per example,
\* a probability in [0, 1] or a logit) log_loss returns, for every example,
\* a finite loss between 0 and -log(small_value).
C10_BinaryLossBounded ==
  ValidBinaryInput =>
    /\ result.kind = "array"
    /\ \A i \in 1..Size(result.val) :
         /\ IsFinite(result.val.data[i])
         /\ result.val.data[i] >= 0
         /\ result.val.data[i] <= FNeg(np_log(SmallValue))

C10_Witness ==
  /\ ValidBinaryInput
  /\ ~Truthy(call.from_logits)
  /\ CallLabels.data = <<1, 0>>
  /\ CallPred.data = <<0, ONE>>
  /\ result.kind = "array"
  /\ result.val.data = <<1842068074, 1842068074>>

====
